---------------------------- MODULE Spec2Model ----------------------------
(***************************************************************************)
(* TrueWork backend: the similarity engine (plagiarism_checker) and the    *)
(* /upload, /check and /clear handlers that drive it (app/main.py).        *)
(*                                                                         *)
(* A text is a sequence of one-character strings.  A similarity score is   *)
(* an IEEE double in the code; here it is a record                         *)
(*     [num |-> n, den |-> d, ulp |-> e]                                   *)
(* standing for sqrt(n/d) + e units in the last place: n/d is the square   *)
(* of the cosine in exact arithmetic (a reduced fraction) and e is the     *)
(* rounding error the floating-point evaluation adds to it.                *)
(***************************************************************************)
EXTENDS Integers, Sequences, FiniteSets

VARIABLES
    submissions,   \* rows of table "submissions", in the order a query reads them
    results,       \* rows of table "plagiarism_results", in insertion order
    request,       \* the last /upload request as sent (recorded under UploadSpec)
    response,      \* the last completed request: its status and what it reported
    runs,          \* number of completed /check requests
    rounding,      \* rounding error (in ulp) of an inexact floating-point result
    text1, text2,  \* the arguments of a direct run_check call
    score          \* what that call returned (Pending before the call)

vars == <<submissions, results, request, response, runs, rounding, text1, text2, score>>

----------------------------------------------------------------------------
(* Bounds of the model *)

MaxLen == 5        \* longest text handed to run_check directly
MaxLen2 == 3       \* longest second text, unless it is the first text or its reverse
MaxUlp == 1        \* largest rounding error of one evaluation, in ulp
MaxSubs == 3       \* most submissions stored at once
MaxFiles == 2      \* most files in one /upload request
MaxRuns == 2       \* most /check requests in one behaviour

Chars == {"a", "B", " "}

TextsUpTo(n) == UNION {[1..k -> Chars] : k \in 0..n}

----------------------------------------------------------------------------
(* Text helpers: str.strip, str.lower and the vectorizer's tokenizer *)

IsSpace(c) == c \in {" ", "\n"}

\* \w on the characters of Chars, before and after lower()
IsWord(c) == c \in {"a", "b", "B"}

RECURSIVE lstrip(_)
lstrip(s) ==
    IF s # <<>> /\ IsSpace(Head(s)) THEN lstrip(Tail(s)) ELSE s

RECURSIVE rstrip(_)
rstrip(s) ==
    IF s # <<>> /\ IsSpace(s[Len(s)]) THEN rstrip(SubSeq(s, 1, Len(s) - 1)) ELSE s

strip(s) == rstrip(lstrip(s))

lower(s) == [i \in 1..Len(s) |-> IF s[i] = "B" THEN "b" ELSE s[i]]

\* token_pattern r"(?u)\b\w\w+\b": a token has at least two word characters
MinTokenLen == 2

Flush(cur, acc) == IF Len(cur) >= MinTokenLen THEN Append(acc, cur) ELSE acc

RECURSIVE Scan(_, _, _)
Scan(s, cur, acc) ==
    IF s = <<>> THEN Flush(cur, acc)
    ELSE IF IsWord(Head(s)) THEN Scan(Tail(s), Append(cur, Head(s)), acc)
    ELSE Scan(Tail(s), <<>>, Flush(cur, acc))

\* the token sequence of a text: lowercase, maximal runs of word characters
Tokenize(s) == Scan(lower(s), <<>>, <<>>)

----------------------------------------------------------------------------
(* TfidfVectorizer().fit_transform([text1, text2]) *)

RECURSIVE SumOver(_, _)
SumOver(S, f) ==
    IF S = {} THEN 0
    ELSE LET x == CHOOSE y \in S : TRUE IN f[x] + SumOver(S \ {x}, f)

Range(seq) == {seq[i] : i \in 1..Len(seq)}

Vocabulary(d1, d2) == Range(d1) \cup Range(d2)

Tf(term, doc) == Cardinality({i \in 1..Len(doc) : doc[i] = term})

Df(term, d1, d2) ==
    (IF term \in Range(d1) THEN 1 ELSE 0) + (IF term \in Range(d2) THEN 1 ELSE 0)

\* smooth idf = ln((1 + 2) / (1 + df)) + 1, in tenths:
\* df = 2 gives 1.0, df = 1 gives ln(1.5) + 1 = 1.405...
IdfBoth == 10
IdfOne == 14

Idf(df) == IF df = 2 THEN IdfBoth ELSE IdfOne

\* variant: add-one smoothing of the term frequency
Weights_smoothed(doc, d1, d2) ==
    [t \in Vocabulary(d1, d2) |-> (Tf(t, doc) + 1) * Idf(Df(t, d1, d2))]

\* variant: the vocabulary is fitted on the first text only
Weights_first_only(doc, d1, d2) ==
    [t \in Vocabulary(d1, d1) |-> Tf(t, doc) * Idf(Df(t, d1, d2))]

\* the tf-idf row of a document over the pair's vocabulary, before normalisation
Weights(doc, d1, d2) ==
    [t \in Vocabulary(d1, d2) |-> Tf(t, doc) * Idf(Df(t, d1, d2))]

Dot(u, v) == SumOver(DOMAIN u, [t \in DOMAIN u |-> u[t] * v[t]])

Norm2(u) == Dot(u, u)

RECURSIVE GCD(_, _)
GCD(a, b) == IF b = 0 THEN a ELSE GCD(b, a % b)

ZeroScore == [num |-> 0, den |-> 1, ulp |-> 0]

\* an exception leaving a call instead of a value
Raised(exc) == [exc |-> exc]

IsRaised(r) == "exc" \in DOMAIN r

\* the double that sqrt(n/d) evaluates to: 0.0 is exact (every product of the
\* dot product is 0.0), anything else carries the rounding error e
Float(n, d, e) ==
    IF n = 0 THEN ZeroScore
    ELSE LET g == GCD(n, d) IN [num |-> n \div g, den |-> d \div g, ulp |-> e]

\* variant: the raw dot product (weights are in tenths), rows not normalised
cosine_similarity_unnormalised(u, v) ==
    Float(Dot(u, v) * Dot(u, v), 100 * 100,
          IF Cardinality(DOMAIN u) >= 2 THEN rounding ELSE 0)

\* fit_transform L2-normalises each row and cosine_similarity normalises again
\* before the dot product: in exact arithmetic dot(u, v) / (|u| |v|).  A zero
\* row has its norm replaced by 1 and stays the zero row.  A one-term
\* vocabulary normalises to exactly 1.0 and the product is exact.
cosine_similarity(u, v) ==
    LET nu == IF Norm2(u) = 0 THEN 1 ELSE Norm2(u)
        nv == IF Norm2(v) = 0 THEN 1 ELSE Norm2(v)
        e  == IF Cardinality(DOMAIN u) >= 2 THEN rounding ELSE 0
    IN Float(Dot(u, v) * Dot(u, v), nu * nv, e)

\* fit_transform raises ValueError("empty vocabulary") when no text has a token
EmptyVocabulary(s1, s2) == Vocabulary(Tokenize(s1), Tokenize(s2)) = {}

\* variant: no try/except around the vectorizer
cosine_similarity_check_unguarded(t1, t2) ==
    LET s1 == strip(t1)
        s2 == strip(t2)
    IN IF s1 = <<>> \/ s2 = <<>> THEN ZeroScore
       ELSE IF EmptyVocabulary(s1, s2) THEN Raised("ValueError")
       ELSE LET d1 == Tokenize(s1)
                d2 == Tokenize(s2)
            IN cosine_similarity(Weights(d1, d1, d2), Weights(d2, d1, d2))

cosine_similarity_check(t1, t2) ==
    LET s1 == strip(t1)
        s2 == strip(t2)
    IN IF s1 = <<>> \/ s2 = <<>> THEN ZeroScore
       ELSE IF EmptyVocabulary(s1, s2) THEN ZeroScore   \* except Exception: return 0.0
       ELSE LET d1 == Tokenize(s1)
                d2 == Tokenize(s2)
            IN cosine_similarity(Weights(d1, d1, d2), Weights(d2, d1, d2))

run_check(t1, t2, algorithm) ==
    IF algorithm = "cosine_similarity" THEN cosine_similarity_check(t1, t2)
    ELSE Raised("ValueError")

----------------------------------------------------------------------------
(* A direct call of run_check on two texts *)

Pending == [pending |-> TRUE]

NoRequest == [files |-> <<>>, student_ids |-> <<>>, docx_installed |-> FALSE, sent |-> FALSE]

Reverse(s) == [i \in 1..Len(s) |-> s[Len(s) + 1 - i]]

ScoreInit ==
    /\ submissions = <<>>
    /\ results = <<>>
    /\ request = NoRequest
    /\ response = [op |-> "none"]
    /\ runs = 0
    /\ rounding \in -MaxUlp..MaxUlp
    /\ text1 \in TextsUpTo(MaxLen)
    /\ text2 \in TextsUpTo(MaxLen2) \cup {text1, Reverse(text1)}
    /\ score = Pending

Compare ==
    /\ score = Pending
    /\ score' = run_check(text1, text2, "cosine_similarity")
    /\ UNCHANGED <<submissions, results, request, response, runs, rounding, text1, text2>>

ScoreNext == Compare

ScoreSpec == ScoreInit /\ [][ScoreNext]_vars

Done == score # Pending

----------------------------------------------------------------------------
(* utils/pdf_parser.py: text extraction by file type *)

\* A file is [filename, readable, body]: body is the text its reader extracts,
\* readable is FALSE when the reader cannot decode the file.  An extraction
\* yields Text(t) or Raised(exc).
Text(t) == [text |-> t]

extract_text_from_pdf(file) ==
    IF file.readable THEN Text(file.body) ELSE Raised("FileDataError")

extract_text_from_txt(file) ==
    IF file.readable THEN Text(file.body) ELSE Raised("UnicodeDecodeError")

\* one paragraph per document: text = para.text + "\n"; without python-docx
\* the ImportError is caught and the text is ""
extract_text_from_docx(file, docx_installed) ==
    IF ~docx_installed THEN Text(<<>>)
    ELSE IF file.readable THEN Text(Append(file.body, "\n"))
    ELSE Raised("PackageNotFoundError")

\* os.path.splitext(file_path)[1].lower()
FileExt(filename) == filename[2]

extract_text(file, docx_installed) ==
    LET file_ext == FileExt(file.filename) IN
    IF file_ext = ".pdf" THEN extract_text_from_pdf(file)
    ELSE IF file_ext = ".txt" THEN extract_text_from_txt(file)
    ELSE IF file_ext = ".docx" THEN extract_text_from_docx(file, docx_installed)
    ELSE LET r == extract_text_from_txt(file) IN IF IsRaised(r) THEN Text(<<>>) ELSE r

----------------------------------------------------------------------------
(* The requests a client can send *)

TextAbBa == <<"a", "B", " ", "B", "a">>
TextA == <<"a">>
TextBlank == <<" ", " ">>

Files == {
    [filename |-> <<"e1", ".txt">>,  readable |-> TRUE,  body |-> TextAbBa],
    [filename |-> <<"e3", ".docx">>, readable |-> TRUE,  body |-> TextA],
    [filename |-> <<"e4", ".txt">>,  readable |-> TRUE,  body |-> TextBlank],
    [filename |-> <<"e5", ".pdf">>,  readable |-> FALSE, body |-> <<>>],
    [filename |-> <<"e6", "">>,      readable |-> FALSE, body |-> <<>>] }

StudentIds == {"s1", "s2"}

SeqsUpTo(S, n) == UNION {[1..k -> S] : k \in 0..n}

----------------------------------------------------------------------------
(* models.py rows and the handlers of main.py *)

RECURSIVE MaxId(_)
MaxId(rows) ==
    IF rows = <<>> THEN 0
    ELSE LET m == MaxId(Tail(rows)) IN IF Head(rows).id > m THEN Head(rows).id ELSE m

\* Integer primary key: the next row id of a table
NextId(rows) == MaxId(rows) + 1

\* variant: the delete is missing
KeepAll(rows) == rows

\* db.query(Model).delete()
DeleteAll(rows) == <<>>

\* variant: no `if text.strip()` before the insert
RECURSIVE UploadLoop_unchecked(_, _, _, _, _)
UploadLoop_unchecked(files, student_ids, docx_installed, k, st) ==
    IF k > Len(files) \/ k > Len(student_ids) THEN st
    ELSE LET file == files[k]
             r == extract_text(file, docx_installed)
         IN IF IsRaised(r)
            THEN UploadLoop_unchecked(files, student_ids, docx_installed, k + 1, st)
            ELSE UploadLoop_unchecked(files, student_ids, docx_installed, k + 1,
                     [subs |-> Append(st.subs,
                                  [id |-> NextId(st.subs),
                                   student_id |-> student_ids[k],
                                   filename |-> file.filename,
                                   text_content |-> r.text]),
                      saved |-> st.saved + 1])

\* the for loop of upload_pdfs over zip(files, student_ids), from position k
\* on: [subs, saved] after the last file.  The copy written under uploads/ is
\* read back by extract_text in the same iteration and by nothing else: its
\* content is the file's body.
RECURSIVE UploadLoop(_, _, _, _, _)
UploadLoop(files, student_ids, docx_installed, k, st) ==
    IF k > Len(files) \/ k > Len(student_ids) THEN st
    ELSE LET file == files[k]
             r == extract_text(file, docx_installed)
             text == r.text
         IN IF IsRaised(r)
            THEN UploadLoop(files, student_ids, docx_installed, k + 1, st)
            ELSE IF strip(text) # <<>>
            THEN UploadLoop(files, student_ids, docx_installed, k + 1,
                     [subs |-> Append(st.subs,
                                  [id |-> NextId(st.subs),
                                   student_id |-> student_ids[k],
                                   filename |-> file.filename,
                                   text_content |-> text]),
                      saved |-> st.saved + 1])
            ELSE UploadLoop(files, student_ids, docx_installed, k + 1, st)

upload_pdfs(files, student_ids, docx_installed) ==
    /\ IF Len(files) # Len(student_ids)
       THEN /\ response' = [op |-> "upload", status |-> 400]
            /\ UNCHANGED submissions
       ELSE LET st == UploadLoop(files, student_ids, docx_installed, 1,
                          [subs |-> submissions, saved |-> 0])
            IN /\ submissions' = st.subs
               /\ response' = [op |-> "upload", status |-> 200, saved_count |-> st.saved]
    /\ UNCHANGED <<results, runs, rounding, text1, text2, score>>

\* variant: the inner loop starts at i instead of i + 1
RECURSIVE IndexPairs_self(_, _, _)
IndexPairs_self(n, i, j) ==
    IF i > n THEN <<>>
    ELSE IF j > n THEN IndexPairs_self(n, i + 1, i + 1)
    ELSE <<<<i, j>>>> \o IndexPairs_self(n, i, j + 1)

\* for i in range(n): for j in range(i + 1, n), as 1-based index pairs in order
RECURSIVE IndexPairs(_, _, _)
IndexPairs(n, i, j) ==
    IF i > n THEN <<>>
    ELSE IF j > n THEN IndexPairs(n, i + 1, i + 2)
    ELSE <<<<i, j>>>> \o IndexPairs(n, i, j + 1)

\* the pair loop of check_plagiarism: the rows added for pairs k.. of `pairs`
RECURSIVE CheckLoop(_, _, _, _)
CheckLoop(subs, pairs, k, rows) ==
    IF k > Len(pairs) THEN rows
    ELSE LET sub1 == subs[pairs[k][1]]
             sub2 == subs[pairs[k][2]]
             sc == run_check(sub1.text_content, sub2.text_content, "cosine_similarity")
         IN IF IsRaised(sc)
            THEN CheckLoop(subs, pairs, k + 1, rows)     \* except Exception: print
            ELSE CheckLoop(subs, pairs, k + 1,
                     Append(rows, [id |-> NextId(rows),
                                   submission1_id |-> sub1.id,
                                   submission2_id |-> sub2.id,
                                   similarity_score |-> sc]))

check_plagiarism ==
    /\ runs < MaxRuns
    /\ results' = CheckLoop(submissions, IndexPairs(Len(submissions), 1, 2), 1,
                            DeleteAll(results))
    /\ response' = [op |-> "check", status |-> 200]
    /\ runs' = runs + 1
    /\ UNCHANGED <<submissions, request, rounding, text1, text2, score>>

\* variant: only the submissions are deleted
clear_data_submissions_only ==
    /\ submissions' = DeleteAll(submissions)
    /\ response' = [op |-> "clear", status |-> 200]
    /\ UNCHANGED <<results, request, runs, rounding, text1, text2, score>>

clear_data ==
    /\ results' = DeleteAll(results)
    /\ submissions' = DeleteAll(submissions)
    /\ response' = [op |-> "clear", status |-> 200]
    /\ UNCHANGED <<request, runs, rounding, text1, text2, score>>

\* the /upload requests sent: at most MaxFiles files, and no more than the
\* table has room for
Upload ==
    \E files \in SeqsUpTo(Files, MaxFiles) :
        /\ Len(submissions) + Len(files) <= MaxSubs
        /\ \E student_ids \in SeqsUpTo(StudentIds, MaxFiles), docx_installed \in BOOLEAN :
               upload_pdfs(files, student_ids, docx_installed)
        /\ UNCHANGED request

\* the same requests, each recorded as it is served
UploadRecorded ==
    \E files \in SeqsUpTo(Files, MaxFiles) :
        /\ Len(submissions) + Len(files) <= MaxSubs
        /\ \E student_ids \in SeqsUpTo(StudentIds, MaxFiles), docx_installed \in BOOLEAN :
               /\ upload_pdfs(files, student_ids, docx_installed)
               /\ request' = [files |-> files, student_ids |-> student_ids,
                              docx_installed |-> docx_installed, sent |-> TRUE]

Init ==
    /\ submissions = <<>>
    /\ results = <<>>
    /\ request = NoRequest
    /\ response = [op |-> "none"]
    /\ runs = 0
    /\ rounding \in -MaxUlp..MaxUlp
    /\ text1 = <<>>
    /\ text2 = <<>>
    /\ score = Pending

Next == Upload \/ check_plagiarism \/ clear_data

Spec == Init /\ [][Next]_vars

UploadNext == UploadRecorded \/ check_plagiarism \/ clear_data

\* no score is rounded by an upload: one rounding error is enough here
UploadInit == Init /\ rounding = 0

UploadSpec == UploadInit /\ [][UploadNext]_vars

----------------------------------------------------------------------------
(* Properties of run_check, checked under ScoreSpec *)

\* 10^9 ulp of a double near 1.0 (2^-52 each) is about 2.2e-7, inside 1e-6
TolUlps == 10^9

NearOne(s) == s.num = s.den /\ -TolUlps <= s.ulp /\ s.ulp <= TolUlps

InUnitInterval(s) ==
    /\ s.num > 0 \/ s.ulp >= 0
    /\ s.num < s.den \/ (s.num = s.den /\ s.ulp <= 0)

Terms(s) == Range(Tokenize(s))

\* C4, as stated: for any non-empty text t, run_check(t, t) is 1.0 within 1e-6.
IdentityNonEmpty ==
    (Done /\ text1 = text2 /\ text1 # <<>>) => (~IsRaised(score) /\ NearOne(score))

\* C4, amended: for any text t with at least one token of two or more characters,
\* run_check(t, t) is 1.0 within 1e-6.
IdentityTokenized ==
    (Done /\ text1 = text2 /\ Tokenize(text1) # <<>>) => (~IsRaised(score) /\ NearOne(score))

IdentityWitness ==
    /\ Done /\ text1 = text2
    /\ Cardinality(Terms(text1)) >= 2
    /\ score.num = score.den /\ score.ulp # 0

\* C5: if either text has no token (empty, whitespace only, or no run of two or
\* more word characters), run_check returns 0.0 and does not raise.
Emptiness ==
    (Done /\ (Tokenize(text1) = <<>> \/ Tokenize(text2) = <<>>)) => score = ZeroScore

EmptinessWitness ==
    /\ Done /\ score = ZeroScore
    /\ strip(text1) # <<>> /\ strip(text2) # <<>>
    /\ Tokenize(text1) = <<>> /\ Tokenize(text2) = <<>>

\* C6: for all texts a and b the score returned by run_check(a, b) lies in
\* [0.0, 1.0].
Boundedness == Done => (~IsRaised(score) /\ InUnitInterval(score))

\* C7: if the two texts share no token of two or more characters, run_check is
\* exactly 0.0.
Disjointness ==
    (Done /\ Terms(text1) \cap Terms(text2) = {}) => score = ZeroScore

DisjointnessWitness ==
    /\ Done /\ score = ZeroScore
    /\ Terms(text1) # {} /\ Terms(text2) # {}
    /\ Terms(text1) \cap Terms(text2) = {}

\* C8: run_check(a, b) and run_check(b, a) return the same score, on the empty
\* and failure paths too.
Symmetry == Done => score = run_check(text2, text1, "cosine_similarity")

SymmetryWitness ==
    /\ Done /\ text1 # text2
    /\ Terms(text1) \ Terms(text2) # {}
    /\ score.num > 0 /\ score.num < score.den /\ score.ulp # 0

----------------------------------------------------------------------------
(* Properties of the handlers, checked under Spec *)

N == Len(submissions)

Pair(r) == {r.submission1_id, r.submission2_id}

Triple(r) == <<r.submission1_id, r.submission2_id, r.similarity_score>>

ResultFor(i, j) ==
    {k \in 1..Len(results) :
        /\ results[k].submission1_id = submissions[i].id
        /\ results[k].submission2_id = submissions[j].id}

\* the vectorizer raises on this pair: both texts non-blank, neither has a token
VectorizerFails(t1, t2) ==
    /\ strip(t1) # <<>> /\ strip(t2) # <<>>
    /\ Tokenize(t1) = <<>> /\ Tokenize(t2) = <<>>

\* C1: a completed /check over n submissions stores n*(n-1)/2 results, one for
\* each unordered pair of distinct submissions, no pair twice, no self-pair.
PairCompleteness ==
    response.op = "check" =>
        /\ 2 * Len(results) = N * (N - 1)
        /\ \A k \in 1..Len(results) : results[k].submission1_id # results[k].submission2_id
        /\ \A k, l \in 1..Len(results) : Pair(results[k]) = Pair(results[l]) => k = l
        /\ \A i, j \in 1..N : i < j =>
              \E k \in 1..Len(results) : Pair(results[k]) = {submissions[i].id, submissions[j].id}

PairCompletenessWitness ==
    response.op = "check" /\ N = MaxSubs /\ 2 * Len(results) = N * (N - 1)

\* C2: after a completed /check the stored results are exactly the results of
\* that run over the submissions stored then; nothing of an earlier run remains.
RunSupersedes ==
    response.op = "check" =>
        LET ordered == {<<i, j>> \in (1..N) \X (1..N) : i < j}
        IN /\ {Triple(results[k]) : k \in 1..Len(results)} =
                {<<submissions[p[1]].id, submissions[p[2]].id,
                   run_check(submissions[p[1]].text_content,
                             submissions[p[2]].text_content, "cosine_similarity")>> :
                     p \in ordered}
           /\ Len(results) = Cardinality(ordered)

RunSupersedesWitness ==
    response.op = "check" /\ runs >= 2 /\ Len(results) >= 2

\* C3: a failure while scoring one pair does not abort the run: a result with
\* score 0.0 is stored for that pair and every later pair still gets a result.
FailureDoesNotAbort ==
    response.op = "check" =>
        \A i, j \in 1..N :
            (i < j /\ VectorizerFails(submissions[i].text_content,
                                      submissions[j].text_content)) =>
                /\ \E k \in ResultFor(i, j) : results[k].similarity_score = ZeroScore
                /\ \A i2, j2 \in 1..N :
                      (i2 < j2 /\ (i2 > i \/ (i2 = i /\ j2 > j))) => ResultFor(i2, j2) # {}

FailureDoesNotAbortWitness ==
    /\ response.op = "check" /\ N >= 3
    /\ VectorizerFails(submissions[1].text_content, submissions[2].text_content)
    /\ ResultFor(1, 2) # {} /\ ResultFor(2, 3) # {}

\* C9: every stored result refers to two distinct stored submissions, the
\* first read before the second; /clear leaves neither results nor submissions.
ReferentialIntegrity ==
    /\ \A k \in 1..Len(results) :
          /\ results[k].submission1_id # results[k].submission2_id
          /\ \E i, j \in 1..N :
                /\ i < j
                /\ submissions[i].id = results[k].submission1_id
                /\ submissions[j].id = results[k].submission2_id
    /\ response.op = "clear" => (results = <<>> /\ submissions = <<>>)

ReferentialIntegrityWitness ==
    /\ response.op = "upload" /\ response.status = 200 /\ response.saved_count >= 1
    /\ results # <<>>
    /\ 2 * Len(results) < N * (N - 1)

\* what /upload must do with one request
Stored(files, docx_installed) ==
    {k \in 1..Len(files) :
        LET r == extract_text(files[k], docx_installed)
        IN ~IsRaised(r) /\ strip(r.text) # <<>>}

Rank(S, k) == Cardinality({x \in S : x <= k})

UploadPost(files, student_ids, docx_installed) ==
    IF Len(files) # Len(student_ids)
    THEN response'.status = 400 /\ submissions' = submissions /\ results' = results
    ELSE LET kept == Stored(files, docx_installed)
             old == Len(submissions)
         IN /\ response'.status = 200
            /\ response'.saved_count = Cardinality(kept)
            /\ Len(submissions') = old + Cardinality(kept)
            /\ SubSeq(submissions', 1, old) = submissions
            /\ \A k \in kept :
                  LET row == submissions'[old + Rank(kept, k)]
                  IN /\ row.filename = files[k].filename
                     /\ row.student_id = student_ids[k]
                     /\ row.text_content = extract_text(files[k], docx_installed).text
            /\ results' = results

\* C10: /upload stores a submission for exactly the files whose extracted text
\* is not blank, skipping files whose extraction raises or is blank, reports
\* the number added, and rejects a request with differing counts with 400 and
\* no change; so every stored submission has non-blank text.
UploadContract ==
    /\ [](\A i \in 1..N : strip(submissions[i].text_content) # <<>>)
    /\ [][response'.op = "upload" =>
             UploadPost(request'.files, request'.student_ids, request'.docx_installed)]_vars

UploadContractWitness ==
    /\ response.op = "upload" /\ response.status = 200
    /\ Len(request.files) = 2 /\ response.saved_count = 1
    /\ IsRaised(extract_text(request.files[1], request.docx_installed))
    /\ submissions[N].filename = request.files[2].filename
    /\ N >= 2

============================================================================
